---------------------------- MODULE Spec2Model ----------------------------
(***************************************************************************)
(* Model of src/evaluate_metrics.py: the rootless-vs-rootful evaluator.    *)
(*                                                                         *)
(* Python floats are IEEE-754 binary floating point numbers.  They are     *)
(* modelled by a binary floating point format of the same shape with a     *)
(* shorter significand (Precision bits instead of 53) and a narrower       *)
(* exponent range (MinExp..MaxExp instead of -1074..971): every operation  *)
(* is computed exactly and rounded to nearest, ties to even, with gradual  *)
(* underflow, overflow to infinity, NaN and the two infinities.  A finite  *)
(* value m * 2^e is the record [k |-> "fin", m |-> m, e |-> e] with m odd, *)
(* or m = 0 and e = 0 (the sign of zero is not modelled).                  *)
(***************************************************************************)
EXTENDS Integers, Sequences, FiniteSets, TLC

\* Bits of the significand of the modelled float format.
Precision == 8

\* Requested repetition counts range over -1 .. MaxReps (args.reps is any int).
MaxReps == 2

\* Exponent of the smallest subnormal, and of the unit of the largest binade.
MinExp == 0 - (Precision + 6)
MaxExp == Precision + 6

RECURSIVE Pow2(_)
Pow2(n) == IF n <= 0 THEN 1 ELSE 2 * Pow2(n - 1)

\* Number of bits of a natural number (0 for 0).
RECURSIVE BitLen(_)
BitLen(a) == IF a = 0 THEN 0 ELSE 1 + BitLen(a \div 2)

AbsInt(n) == IF n < 0 THEN 0 - n ELSE n

NaN == [k |-> "nan", m |-> 0, e |-> 0]
PosInf == [k |-> "inf", m |-> 1, e |-> 0]
NegInf == [k |-> "inf", m |-> -1, e |-> 0]
Zero == [k |-> "fin", m |-> 0, e |-> 0]

IsNaN(x) == x.k = "nan"
IsInf(x) == x.k = "inf"
IsFin(x) == x.k = "fin"
Sign(x) == IF x.m < 0 THEN -1 ELSE IF x.m > 0 THEN 1 ELSE 0
Inf(s) == IF s < 0 THEN NegInf ELSE PosInf

\* Canonical record of the exactly representable value n * 2^e.
RECURSIVE Canon(_, _)
Canon(n, e) ==
  IF n = 0 THEN Zero
  ELSE IF n % 2 = 0 THEN Canon(n \div 2, e + 1)
  ELSE [k |-> "fin", m |-> n, e |-> e]

\* Rounding of a magnitude q + r / (2 * half) to an integer, half to even
\* (half = 0: nothing was shifted out).
RoundUp(q, r, half) ==
  IF half > 0 /\ (r > half \/ (r = half /\ q % 2 = 1)) THEN q + 1 ELSE q

\* The float s * q * 2^e of a rounded magnitude q: zero, infinity on
\* overflow, or the canonical record.
Pack(s, q, e) ==
  IF q = 0 THEN Zero
  ELSE IF BitLen(q) + e > MaxExp + Precision THEN Inf(s)
  ELSE Canon(s * q, e)

\* Bits to drop from a magnitude of L bits at exponent e: down to Precision
\* bits, and no exponent below MinExp (gradual underflow).
Shift(L, e) ==
  IF L - Precision > MinExp - e
    THEN (IF L - Precision > 0 THEN L - Precision ELSE 0)
    ELSE (IF MinExp - e > 0 THEN MinExp - e ELSE 0)

RoundShift(s, a, e, shift) ==
  IF shift > BitLen(a) THEN Zero
  ELSE Pack(s, RoundUp(a \div Pow2(shift), a % Pow2(shift),
                       IF shift = 0 THEN 0 ELSE Pow2(shift - 1)), e + shift)

\* The float nearest to the exact value n * 2^e (round half to even).
Round(n, e) ==
  IF n = 0 THEN Zero
  ELSE RoundShift(IF n < 0 THEN -1 ELSE 1, AbsInt(n), e,
                  Shift(BitLen(AbsInt(n)), e))

\* An integer as a float.
F(n) == Round(n, 0)

\* |x| < |y| for finite nonzero x and y.
MagLt(x, y) ==
  LET tx == BitLen(AbsInt(x.m)) + x.e
      ty == BitLen(AbsInt(y.m)) + y.e
  IN IF tx # ty THEN tx < ty
     ELSE IF x.e >= y.e THEN AbsInt(x.m) * Pow2(x.e - y.e) < AbsInt(y.m)
     ELSE AbsInt(x.m) < AbsInt(y.m) * Pow2(y.e - x.e)

\* Comparisons; every comparison with NaN is false.
FLt(x, y) ==
  IF IsNaN(x) \/ IsNaN(y) THEN FALSE
  ELSE IF IsInf(x) THEN x.m < 0 /\ ~(IsInf(y) /\ y.m < 0)
  ELSE IF IsInf(y) THEN y.m > 0
  ELSE IF Sign(x) # Sign(y) THEN Sign(x) < Sign(y)
  ELSE IF Sign(x) = 0 THEN FALSE
  ELSE IF Sign(x) > 0 THEN MagLt(x, y)
  ELSE MagLt(y, x)

FEq(x, y) == ~IsNaN(x) /\ ~IsNaN(y) /\ x = y
FGt(x, y) == FLt(y, x)
FLe(x, y) == FLt(x, y) \/ FEq(x, y)
FGe(x, y) == FLe(y, x)

FNeg(x) == IF IsNaN(x) THEN NaN ELSE [x EXCEPT !.m = 0 - x.m]
FAbs(x) == IF IsNaN(x) THEN NaN ELSE [x EXCEPT !.m = AbsInt(x.m)]

FAdd(x, y) ==
  IF IsNaN(x) \/ IsNaN(y) THEN NaN
  ELSE IF IsInf(x) THEN (IF IsInf(y) /\ y.m # x.m THEN NaN ELSE x)
  ELSE IF IsInf(y) THEN y
  ELSE IF x.m = 0 THEN y
  ELSE IF y.m = 0 THEN x
  ELSE IF x.e - y.e > 2 * Precision THEN x
  ELSE IF y.e - x.e > 2 * Precision THEN y
  ELSE IF x.e >= y.e THEN Round(x.m * Pow2(x.e - y.e) + y.m, y.e)
  ELSE Round(x.m + y.m * Pow2(y.e - x.e), x.e)

FSub(x, y) == FAdd(x, FNeg(y))

FMul(x, y) ==
  IF IsNaN(x) \/ IsNaN(y) THEN NaN
  ELSE IF IsInf(x) \/ IsInf(y)
    THEN (IF Sign(x) = 0 \/ Sign(y) = 0 THEN NaN ELSE Inf(Sign(x) * Sign(y)))
  ELSE Round(x.m * y.m, x.e + y.e)

\* x / y for y other than a finite zero (Python raises ZeroDivisionError there).
FDiv(x, y) ==
  IF IsNaN(x) \/ IsNaN(y) THEN NaN
  ELSE IF IsInf(x) THEN (IF IsInf(y) THEN NaN ELSE Inf(x.m * (IF y.m < 0 THEN -1 ELSE 1)))
  ELSE IF IsInf(y) THEN Zero
  ELSE IF x.m = 0 THEN Zero
  ELSE
    LET s == Sign(x) * Sign(y)
        a == AbsInt(x.m)
        b == AbsInt(y.m)
        sc == Precision + 2 + BitLen(b) - BitLen(a)
        q == (a * Pow2(sc)) \div b
        r == (a * Pow2(sc)) % b
        n == 2 * q + (IF r = 0 THEN 0 ELSE 1)
    IN Round(s * n, x.e - y.e - sc - 1)


\* Python's two-argument min and max: the first argument wins unless the
\* second compares strictly below (above) it, so a NaN second argument loses.
PyMin(a, b) == IF FLt(b, a) THEN b ELSE a
PyMax(a, b) == IF FGt(b, a) THEN b ELSE a

\* The value None, kept in the shape of a float record.
None == [k |-> "none", m |-> 0, e |-> 0]

\* prom_query's two ways to return: (None, False) and (float, True).
Missing == [val |-> None, ok |-> FALSE]
Sample(v) == [val |-> v, ok |-> TRUE]

\* `x or 0.0` for x a float or None.
OrZero(x) == IF x = None \/ x = Zero THEN Zero ELSE x

\* compute_score: [raised, rel, contrib]; raised is the ZeroDivisionError of
\* line 61 (denom nonzero but denom / 2.0 rounded to zero).
compute_score(rootless, rootful, weight, direction) ==
  LET denom == FAdd(FAbs(rootless), FAbs(rootful))
      halfd == FDiv(denom, F(2))
      raised == ~FEq(denom, Zero) /\ halfd = Zero
      rel0 == IF FEq(denom, Zero) THEN Zero
              ELSE IF raised THEN NaN
              ELSE PyMax(F(-1), PyMin(F(1), FDiv(FSub(rootless, rootful), halfd)))
      rel == IF direction = "lower" THEN FNeg(rel0) ELSE rel0
      score0 == FAdd(F(50), FMul(rel, F(50)))
      score == PyMax(Zero, PyMin(F(100), score0))
  IN [raised |-> raised, rel |-> rel, contrib |-> FMul(score, weight)]

\* Lines 150-160 with the rootful thresholds consulted before the rootless.
VerdictRootfulFirst(weighted_score, th) ==
  IF FLe(weighted_score, th.strong_rootful) THEN "strong prefer rootful"
  ELSE IF FLe(weighted_score, th.mild_rootful) THEN "mild prefer rootful"
  ELSE IF FGe(weighted_score, th.strong_rootless) THEN "strong prefer rootless"
  ELSE IF FGe(weighted_score, th.mild_rootless) THEN "mild prefer rootless"
  ELSE "inconclusive"

\* Lines 150-160 with line 153 comparing <= in place of >=.
VerdictMildReversed(weighted_score, th) ==
  IF FGe(weighted_score, th.strong_rootless) THEN "strong prefer rootless"
  ELSE IF FLe(weighted_score, th.mild_rootless) THEN "mild prefer rootless"
  ELSE IF FLe(weighted_score, th.strong_rootful) THEN "strong prefer rootful"
  ELSE IF FLe(weighted_score, th.mild_rootful) THEN "mild prefer rootful"
  ELSE "inconclusive"

\* Lines 150-160: the verdict of a score under a threshold set.
Verdict(weighted_score, th) ==
  IF FGe(weighted_score, th.strong_rootless) THEN "strong prefer rootless"
  ELSE IF FGe(weighted_score, th.mild_rootless) THEN "mild prefer rootless"
  ELSE IF FLe(weighted_score, th.strong_rootful) THEN "strong prefer rootful"
  ELSE IF FLe(weighted_score, th.mild_rootful) THEN "mild prefer rootful"
  ELSE "inconclusive"

\* sum(...) of a sequence of floats: left to right from the int 0.
RECURSIVE FSum(_)
FSum(xs) == IF Len(xs) = 0 THEN Zero
            ELSE FAdd(FSum(SubSeq(xs, 1, Len(xs) - 1)), xs[Len(xs)])

\* sum() of CPython 3.12 and later: Neumaier's compensated summation.
RECURSIVE Neumaier(_)
Neumaier(xs) ==
  IF Len(xs) = 0 THEN [s |-> Zero, c |-> Zero]
  ELSE LET p == Neumaier(SubSeq(xs, 1, Len(xs) - 1))
           x == xs[Len(xs)]
           t == FAdd(p.s, x)
           d == IF FGe(FAbs(p.s), FAbs(x)) THEN FAdd(FSub(p.s, t), x)
                ELSE FAdd(FSub(x, t), p.s)
       IN [s |-> t, c |-> FAdd(p.c, d)]
CompensatedSum(xs) ==
  LET p == Neumaier(xs)
  IN IF p.c # Zero /\ IsFin(p.c) THEN FAdd(p.s, p.c) ELSE p.s

\* The interpreter's sum(): plain left-to-right before 3.12, compensated after.
SumAlgorithms == {"plain", "compensated"}
PySum(xs, alg) == IF alg = "plain" THEN FSum(xs) ELSE CompensatedSum(xs)

\* min(...) and max(...) of a non-empty sequence: the first element wins ties.
RECURSIVE SeqMin(_)
SeqMin(xs) == IF Len(xs) = 1 THEN xs[1]
              ELSE PyMin(SeqMin(SubSeq(xs, 1, Len(xs) - 1)), xs[Len(xs)])
RECURSIVE SeqMax(_)
SeqMax(xs) == IF Len(xs) = 1 THEN xs[1]
              ELSE PyMax(SeqMax(SubSeq(xs, 1, Len(xs) - 1)), xs[Len(xs)])

\* Lines 175-177: scores, mean_score and variance.
Scores(rs) == [i \in 1..Len(rs) |-> rs[i].weighted_score]
MeanScore(scores, alg) ==
  IF Len(scores) = 0 THEN F(50) ELSE FDiv(PySum(scores, alg), F(Len(scores)))
Variance(scores, alg) ==
  IF Len(scores) = 0 THEN Zero
  ELSE LET mu == MeanScore(scores, alg)
           sq == [i \in 1..Len(scores) |->
                    FMul(FSub(scores[i], mu), FSub(scores[i], mu))]
       IN FDiv(PySum(sq, alg), F(Len(scores)))

\* Lines 180-190 with final_verdict classifying the mean score.
SummaryVerdictOfMean(rs, n, th, alg) ==
  LET scores == Scores(rs)
  IN [repetitions |-> n,
      mean_weighted_score |-> MeanScore(scores, alg),
      variance |-> Variance(scores, alg),
      min_weighted_score |-> IF Len(scores) = 0 THEN F(50) ELSE SeqMin(scores),
      max_weighted_score |-> IF Len(scores) = 0 THEN F(50) ELSE SeqMax(scores),
      thresholds |-> th,
      final_verdict |-> Verdict(MeanScore(scores, alg), th)]

\* Lines 180-190: the summary (stddev is variance ** 0.5; the variance is
\* kept, the two target names are left out).
Summary(rs, n, th, alg) ==
  LET scores == Scores(rs)
  IN [repetitions |-> n,
      mean_weighted_score |-> MeanScore(scores, alg),
      variance |-> Variance(scores, alg),
      min_weighted_score |-> IF Len(scores) = 0 THEN F(50) ELSE SeqMin(scores),
      max_weighted_score |-> IF Len(scores) = 0 THEN F(50) ELSE SeqMax(scores),
      thresholds |-> th,
      final_verdict |-> IF Len(rs) = 0 THEN "inconclusive" ELSE rs[Len(rs)].verdict]

(***************************************************************************)
(* The program state.                                                      *)
(*   reps, metrics, thresholds   args.reps and the loaded configuration    *)
(*   pc                          position in main                          *)
(*   rep, idx                    loop index of the repetition; number of   *)
(*                               metrics of it already handled             *)
(*   rl, rf                      (value, ok) of the last two fetches       *)
(*   rep_metrics, total_weight, weighted_sum    locals of one repetition   *)
(*   runs                        the results appended so far               *)
(*   report                      the output file: <<>> until written       *)
(*   call, ret                   argument and result of a function called  *)
(*                               on its own                                *)
(* An entry of runs carries rep, weighted_score, verdict, effective_weight;*)
(* its "metrics" field is the value rep_metrics has when it is appended    *)
(* and until the next repetition starts, and is read from there; the       *)
(* timestamp is left out.                                                   *)
(***************************************************************************)
VARIABLES reps, metrics, thresholds, pc, rep, idx, rl, rf, rep_metrics,
          total_weight, weighted_sum, runs, report, call, ret

vars == <<reps, metrics, thresholds, pc, rep, idx, rl, rf, rep_metrics,
          total_weight, weighted_sum, runs, report, call, ret>>

config == <<reps, metrics, thresholds>>
unit == <<call, ret>>

Dirs == {"higher", "lower"}

\* The smallest weight step below 1: 1 + Tiny is a tie between two floats.
Tiny == Canon(1, 0 - Precision)
\* The smallest positive float, and the largest finite one.
MinSub == Canon(1, MinExp)
MaxFin == Canon(Pow2(Precision) - 1, MaxExp)

\* Sample values the backend returns in a run.
Raw == {Zero, F(1)}
FetchOutcomes == {Missing} \cup {Sample(v) : v \in Raw}

\* Metric configurations of a run, in dictionary order.
Metric(n, w, d) == [name |-> n, weight |-> w, direction |-> d]
WeightPairs == {<<F(1), F(2)>>, <<Zero, Zero>>, <<F(1), Tiny>>}
DirPairs == {<<"higher", "higher">>, <<"lower", "higher">>}
MetricConfigs ==
  {<<Metric("cpu", w[1], d[1]), Metric("mem", w[2], d[2])>> :
     w \in WeightPairs, d \in DirPairs}

Thresholds(sr, mr, mf, sf) ==
  [strong_rootless |-> F(sr), mild_rootless |-> F(mr),
   mild_rootful |-> F(mf), strong_rootful |-> F(sf)]
ThresholdSets == {Thresholds(80, 60, 40, 20), Thresholds(60, 80, 60, 20)}

NoCall == [fn |-> "none"]

Locals0 ==
  /\ rep = 0
  /\ idx = 0
  /\ rl = Missing
  /\ rf = Missing
  /\ rep_metrics = <<>>
  /\ total_weight = Zero
  /\ weighted_sum = Zero
  /\ runs = <<>>
  /\ report = <<>>

\* Lines 72-92: arguments parsed, configuration loaded, runs empty.
Init ==
  /\ reps \in -1..MaxReps
  /\ metrics \in MetricConfigs
  /\ thresholds \in ThresholdSets
  /\ pc = "rep"
  /\ Locals0
  /\ call = NoCall
  /\ ret = NoCall

\* Lines 107-110: the next repetition begins.
StartRep ==
  /\ pc = "rep"
  /\ rep < reps
  /\ rep_metrics' = <<>>
  /\ total_weight' = Zero
  /\ weighted_sum' = Zero
  /\ idx' = 0
  /\ pc' = "metric"
  /\ UNCHANGED <<config, rep, rl, rf, runs, report, unit>>

Excluded(spec, a, b) ==
  [name |-> spec.name, rootless_value |-> a.val, rootful_value |-> b.val,
   direction |-> spec.direction, weight |-> spec.weight, included |-> FALSE,
   normalized_delta |-> None, weighted_score_contrib |-> None]

Included(spec, a, b, r) ==
  [name |-> spec.name, rootless_value |-> a.val, rootful_value |-> b.val,
   direction |-> spec.direction, weight |-> spec.weight, included |-> TRUE,
   normalized_delta |-> r.rel, weighted_score_contrib |-> r.contrib]

\* Line 120 with `or` in place of `and`.
EitherOk(a, b) == a.ok \/ b.ok

\* Does the metric take part in the weighting (line 120, negated)?
BothOk(a, b) == a.ok /\ b.ok

\* Lines 111-142: one metric of the repetition: both fetches return, then the
\* metric is excluded, or scored and accumulated, or compute_score raises.
ScoreMetric ==
  /\ pc = "metric"
  /\ idx < Len(metrics)
  /\ \E a \in FetchOutcomes, b \in FetchOutcomes :
       LET spec == metrics[idx + 1]
           r == compute_score(OrZero(a.val), OrZero(b.val), spec.weight,
                              spec.direction)
       IN /\ rl' = a
          /\ rf' = b
          /\ IF ~BothOk(a, b)
               THEN /\ rep_metrics' = Append(rep_metrics, Excluded(spec, a, b))
                    /\ idx' = idx + 1
                    /\ UNCHANGED <<total_weight, weighted_sum, pc>>
             ELSE IF r.raised
               THEN /\ pc' = "aborted"
                    /\ UNCHANGED <<rep_metrics, idx, total_weight, weighted_sum>>
             ELSE /\ rep_metrics' = Append(rep_metrics, Included(spec, a, b, r))
                  /\ total_weight' = FAdd(total_weight, spec.weight)
                  /\ weighted_sum' = FAdd(weighted_sum, r.contrib)
                  /\ idx' = idx + 1
                  /\ UNCHANGED pc
  /\ UNCHANGED <<config, rep, runs, report, unit>>

\* A fetch raises and main writes the results so far before it exits.
FetchRaisesPartialReport ==
  /\ pc = "metric"
  /\ idx < Len(metrics)
  /\ pc' = "aborted"
  /\ \E alg \in SumAlgorithms :
       report' = <<[summary |-> Summary(runs, reps, thresholds, alg), runs |-> runs]>>
  /\ UNCHANGED <<config, rep, idx, rl, rf, rep_metrics, total_weight,
                 weighted_sum, runs, unit>>

\* Lines 29-33: a fetch raises (HTTP error, or a status other than success);
\* nothing in main catches it.
FetchRaises ==
  /\ pc = "metric"
  /\ idx < Len(metrics)
  /\ pc' = "aborted"
  /\ UNCHANGED <<config, rep, idx, rl, rf, rep_metrics, total_weight,
                 weighted_sum, runs, report, unit>>

\* Lines 145-148 with 0.0 as the default in place of 50.0.
WeightedScoreZeroDefault(ws, tw) == IF FGt(tw, Zero) THEN FDiv(ws, tw) ELSE Zero

\* Lines 145-148.
WeightedScore(ws, tw) == IF FGt(tw, Zero) THEN FDiv(ws, tw) ELSE F(50)

\* Lines 162-169 with "rep": rep in place of rep + 1.
RunEntryZeroBased(r, ws, tw, th) ==
  [rep |-> r,
   weighted_score |-> IF FGt(tw, Zero) THEN FDiv(ws, tw) ELSE F(50),
   verdict |-> Verdict(IF FGt(tw, Zero) THEN FDiv(ws, tw) ELSE F(50), th),
   effective_weight |-> tw]

\* Lines 162-169: the entry appended for repetition index r.
RunEntry(r, ws, tw, th) ==
  [rep |-> r + 1,
   weighted_score |-> WeightedScore(ws, tw),
   verdict |-> Verdict(WeightedScore(ws, tw), th),
   effective_weight |-> tw]

\* Lines 144-172: aggregate, classify, append, sleep.
FinishRep ==
  /\ pc = "metric"
  /\ idx = Len(metrics)
  /\ runs' = Append(runs, RunEntry(rep, weighted_sum, total_weight, thresholds))
  /\ rep' = rep + 1
  /\ pc' = "rep"
  /\ UNCHANGED <<config, idx, rl, rf, rep_metrics, total_weight, weighted_sum,
                 report, unit>>

\* Lines 174-202: summary and report file, after the last repetition.
WriteReport ==
  /\ pc = "rep"
  /\ rep >= reps
  /\ \E alg \in SumAlgorithms :
       report' = <<[summary |-> Summary(runs, reps, thresholds, alg), runs |-> runs]>>
  /\ pc' = "done"
  /\ UNCHANGED <<config, rep, idx, rl, rf, rep_metrics, total_weight,
                 weighted_sum, runs, unit>>

Next ==
  \/ StartRep
  \/ ScoreMetric
  \/ FetchRaises
  \/ FinishRep
  \/ WriteReport

Spec == Init /\ [][Next]_vars

(***************************************************************************)
(* The same program on a longer run of one configuration.                  *)
(***************************************************************************)
InitLong ==
  /\ reps = MaxReps + 1
  /\ metrics = <<Metric("cpu", F(1), "higher"), Metric("mem", F(3), "higher")>>
  /\ thresholds = Thresholds(80, 60, 40, 20)
  /\ pc = "rep"
  /\ Locals0
  /\ call = NoCall
  /\ ret = NoCall

SpecLong == InitLong /\ [][Next]_vars

(***************************************************************************)
(* compute_score called on its own, over a wider range of arguments.       *)
(***************************************************************************)
ScoreArgs == {Zero, F(1), F(-1), F(2), F(3), MinSub, MaxFin, FNeg(MaxFin),
              NaN, PosInf, NegInf}
ScoreWeights == {Zero, F(1), F(3), Tiny, F(-1)}

InitScore ==
  /\ reps = 0
  /\ metrics = <<>>
  /\ thresholds = Thresholds(80, 60, 40, 20)
  /\ pc = "call"
  /\ Locals0
  /\ call \in [fn : {"compute_score"}, rootless : ScoreArgs,
               rootful : ScoreArgs, weight : ScoreWeights, direction : Dirs]
  /\ ret = NoCall

CallComputeScore ==
  /\ pc = "call"
  /\ call.fn = "compute_score"
  /\ ret' = compute_score(call.rootless, call.rootful, call.weight,
                          call.direction)
  /\ pc' = "returned"
  /\ UNCHANGED <<config, rep, idx, rl, rf, rep_metrics, total_weight,
                 weighted_sum, runs, report, call>>

SpecScore == InitScore /\ [][CallComputeScore]_vars

(***************************************************************************)
(* The verdict classification of lines 150-160 on its own: two scores are  *)
(* classified under one threshold set, any four threshold values.          *)
(***************************************************************************)
ThresholdValues == {20, 40, 60, 80}
AllThresholdSets ==
  {Thresholds(a, b, c, d) : a \in ThresholdValues, b \in ThresholdValues,
                            c \in ThresholdValues, d \in ThresholdValues}
ScoreGrid == {F(10 * i) : i \in 0..10}

InitVerdict ==
  /\ reps = 0
  /\ metrics = <<>>
  /\ thresholds \in AllThresholdSets
  /\ pc = "call"
  /\ Locals0
  /\ call = [fn |-> "verdict"]
  /\ ret = <<>>

CallVerdict ==
  /\ pc = "call"
  /\ call.fn = "verdict"
  /\ \E s \in ScoreGrid :
       ret' = Append(ret, [weighted_score |-> s,
                           verdict |-> Verdict(s, thresholds)])
  /\ pc' = IF Len(ret) = 0 THEN "call" ELSE "returned"
  /\ UNCHANGED <<config, rep, idx, rl, rf, rep_metrics, total_weight,
                 weighted_sum, runs, report, call>>

SpecVerdict == InitVerdict /\ [][CallVerdict]_vars

(***************************************************************************)
(* Properties.                                                             *)
(***************************************************************************)
InUnit(x) == FLe(F(-1), x) /\ FLe(x, F(1))
InScale(x) == FLe(Zero, x) /\ FLe(x, F(100))
Written == report # <<>>
RootlessLeaning(v) == v \in {"strong prefer rootless", "mild prefer rootless"}
RootfulLeaning(v) == v \in {"strong prefer rootful", "mild prefer rootful"}
Rank(v) ==
  CASE v = "strong prefer rootful" -> 0
    [] v = "mild prefer rootful" -> 1
    [] v = "inconclusive" -> 2
    [] v = "mild prefer rootless" -> 3
    [] v = "strong prefer rootless" -> 4
IncludedOf(ms) == SelectSeq(ms, LAMBDA m : m.included)
Contribs(ms) == [i \in 1..Len(ms) |-> ms[i].weighted_score_contrib]
WeightsOf(ms) == [i \in 1..Len(ms) |-> ms[i].weight]
\* A step of a repetition that records the result of one metric.
Recorded == pc = "metric" /\ Len(rep_metrics') = Len(rep_metrics) + 1

\* C1: the result recorded for a metric has included = FALSE exactly when one
\* of its two fetches returned ok = FALSE; recording an excluded metric leaves
\* weighted_sum and total_weight as they were, recording an included one adds
\* its contribution to weighted_sum and its weight to total_weight.
C1_ExcludedIffFetchFailed ==
  [][Recorded =>
       LET m == rep_metrics'[Len(rep_metrics')]
       IN /\ m.included = (rl'.ok /\ rf'.ok)
          /\ ~m.included =>
               /\ weighted_sum' = weighted_sum
               /\ total_weight' = total_weight
          /\ m.included =>
               /\ weighted_sum' = FAdd(weighted_sum, m.weighted_score_contrib)
               /\ total_weight' = FAdd(total_weight, m.weight)]_vars

\* C1 witness: a repetition whose first metric was excluded and whose second
\* was scored: the accumulators hold the second metric alone.
C1_Witness ==
  /\ pc = "metric"
  /\ Len(rep_metrics) = 2
  /\ ~rep_metrics[1].included
  /\ rl.ok /\ rf.ok
  /\ rep_metrics[2].included
  /\ total_weight = rep_metrics[2].weight
  /\ total_weight # Zero
  /\ weighted_sum = rep_metrics[2].weighted_score_contrib
  /\ weighted_sum # FMul(F(50), total_weight)

\* C2: the result of a repetition has effective_weight equal to the sum of the
\* weights of its included metrics; its weighted_score is the sum of their
\* contributions divided by that weight sum when the sum is > 0, and 50.0
\* when it is 0, so also when every metric was excluded.
C2_WeightedAverageOrNeutral ==
  (pc \in {"rep", "done"} /\ Len(runs) > 0) =>
    LET r == runs[Len(runs)]
        inc == IncludedOf(rep_metrics)
        ew == FSum(WeightsOf(inc))
    IN /\ r.effective_weight = ew
       /\ FGt(ew, Zero) => r.weighted_score = FDiv(FSum(Contribs(inc)), ew)
       /\ ew = Zero => r.weighted_score = F(50)
       /\ Len(inc) = 0 => (r.weighted_score = F(50) /\ r.effective_weight = Zero)

\* C2 witness: a completed repetition with every metric excluded.
C2_Witness ==
  /\ pc = "rep"
  /\ Len(runs) > 0
  /\ Len(rep_metrics) = Len(metrics)
  /\ Len(IncludedOf(rep_metrics)) = 0
  /\ \E i \in 1..Len(metrics) : metrics[i].weight # Zero
  /\ runs[Len(runs)].weighted_score = F(50)

\* C3: with every weight >= 0, every appended result has weighted_score in
\* [0, 100] and effective_weight >= 0.
C3_ScoreWithinScale ==
  (\A i \in 1..Len(metrics) : FGe(metrics[i].weight, Zero)) =>
    \A i \in 1..Len(runs) :
      /\ InScale(runs[i].weighted_score)
      /\ FGe(runs[i].effective_weight, Zero)

\* C7: the results in runs are numbered 1, 2, ... in order, one per completed
\* repetition; a repetition records one result per metric before it appends;
\* a step that records a metric, excluded or not, stays in the repetition,
\* and no step in which a fetch returned ok = FALSE aborts the run;
\* runs grows by one result at a time, when all metrics of the repetition
\* are recorded, whatever their fetches returned.
C7_OneResultPerRepetition ==
  /\ [](/\ Len(runs) = rep
        /\ \A i \in 1..Len(runs) : runs[i].rep = i
        /\ pc = "metric" => (Len(rep_metrics) = idx /\ rep < reps))
  /\ [][/\ Recorded => (pc' = "metric" /\ idx' = idx + 1 /\ runs' = runs)
        /\ (pc' = "aborted" /\ <<rl', rf'>> # <<rl, rf>>) => (rl'.ok /\ rf'.ok)
        /\ runs' # runs =>
             /\ Len(rep_metrics) = Len(metrics)
             /\ runs' = Append(runs, runs'[Len(runs')])
             /\ rep' = rep + 1]_vars

\* C7 witness: two repetitions completed, the first with no metric scored.
C7_Witness ==
  /\ Len(runs) = 2
  /\ runs[1].effective_weight = Zero
  /\ runs[1].weighted_score = F(50)
  /\ runs[2].effective_weight # Zero
  /\ ~rep_metrics[1].included
  /\ rep_metrics[2].included

\* C8: the final_verdict of the written report is the verdict of the last
\* result of runs, and inconclusive when runs is empty.
C8_FinalVerdictIsLast ==
  Written =>
    /\ pc = "done"
    /\ report[1].runs = runs
    /\ report[1].summary.final_verdict =
         IF Len(runs) = 0 THEN "inconclusive" ELSE runs[Len(runs)].verdict

\* C8 witness: a report whose final_verdict is not the verdict of its mean.
C8_Witness ==
  /\ Written
  /\ Len(runs) >= 2
  /\ report[1].summary.final_verdict = runs[Len(runs)].verdict
  /\ report[1].summary.final_verdict #
       Verdict(report[1].summary.mean_weighted_score, thresholds)

ScoreOf(rel) == FAdd(F(50), FMul(F(50), rel))

\* C4: for all arguments compute_score returns, with normalized_delta in
\* [-1, 1], the score 50 + 50 * normalized_delta in [0, 100], and the
\* contribution equal to weight * score.
C4_ScoreBounded ==
  (pc = "returned" /\ call.fn = "compute_score") =>
    /\ ~ret.raised
    /\ InUnit(ret.rel)
    /\ InScale(ScoreOf(ret.rel))
    /\ ret.contrib = FMul(call.weight, ScoreOf(ret.rel))

\* C5 as claimed: between a rootful-leaning score and a higher
\* rootless-leaning score there is an inconclusive score, and the verdict
\* never becomes more rootful-leaning as the score rises.
C5_ThroughInconclusive ==
  \A i \in 1..Len(ret) : \A j \in 1..Len(ret) :
    FLt(ret[i].weighted_score, ret[j].weighted_score) =>
      /\ Rank(ret[i].verdict) <= Rank(ret[j].verdict)
      /\ (RootfulLeaning(ret[i].verdict) /\ RootlessLeaning(ret[j].verdict)) =>
           \E s \in ScoreGrid :
             /\ FLt(ret[i].weighted_score, s)
             /\ FLt(s, ret[j].weighted_score)
             /\ Verdict(s, thresholds) = "inconclusive"

\* Both rootful thresholds lie strictly below both rootless thresholds.
Separated(th) ==
  /\ FLt(th.strong_rootful, th.strong_rootless)
  /\ FLt(th.strong_rootful, th.mild_rootless)
  /\ FLt(th.mild_rootful, th.strong_rootless)
  /\ FLt(th.mild_rootful, th.mild_rootless)

\* C5 amended: for every threshold set the verdict never becomes more
\* rootful-leaning as the score rises; when both rootful thresholds lie
\* strictly below both rootless thresholds, every score above both rootful
\* thresholds and below both rootless thresholds is inconclusive, and every
\* rootful-leaning score lies at or below a rootful threshold and every
\* rootless-leaning score at or above a rootless one, so the scores in the
\* gap lie between them.
C5_MonotoneVerdict ==
  /\ \A i \in 1..Len(ret) : \A j \in 1..Len(ret) :
       FLt(ret[i].weighted_score, ret[j].weighted_score) =>
         Rank(ret[i].verdict) <= Rank(ret[j].verdict)
  /\ Separated(thresholds) =>
       \A i \in 1..Len(ret) :
         /\ (/\ FGt(ret[i].weighted_score, thresholds.strong_rootful)
             /\ FGt(ret[i].weighted_score, thresholds.mild_rootful)
             /\ FLt(ret[i].weighted_score, thresholds.strong_rootless)
             /\ FLt(ret[i].weighted_score, thresholds.mild_rootless))
              => ret[i].verdict = "inconclusive"
         /\ RootfulLeaning(ret[i].verdict) =>
              (\/ FLe(ret[i].weighted_score, thresholds.strong_rootful)
               \/ FLe(ret[i].weighted_score, thresholds.mild_rootful))
         /\ RootlessLeaning(ret[i].verdict) =>
              (\/ FGe(ret[i].weighted_score, thresholds.strong_rootless)
               \/ FGe(ret[i].weighted_score, thresholds.mild_rootless))

\* C5 witness: under separated thresholds a rootful-leaning score, a higher
\* rootless-leaning score, and an inconclusive score between the two.
C5_Witness ==
  /\ Len(ret) = 2
  /\ call.fn = "verdict"
  /\ Separated(thresholds)
  /\ FLt(thresholds.mild_rootless, thresholds.strong_rootless)
  /\ RootfulLeaning(ret[1].verdict)
  /\ RootlessLeaning(ret[2].verdict)
  /\ \E s \in ScoreGrid :
       /\ FLt(ret[1].weighted_score, s)
       /\ FLt(s, ret[2].weighted_score)
       /\ Verdict(s, thresholds) = "inconclusive"

\* C6: the verdict is the first match, in order, of score >= strong_rootless,
\* score >= mild_rootless, score <= strong_rootful, score <= mild_rootful,
\* else inconclusive, for every threshold set; a score that meets a rootless
\* and a rootful condition is classified rootless-leaning.
C6_FirstMatchWins ==
  call.fn = "verdict" =>
    \A i \in 1..Len(ret) :
      LET s == ret[i].weighted_score
          v == ret[i].verdict
          c1 == FGe(s, thresholds.strong_rootless)
          c2 == FGe(s, thresholds.mild_rootless)
          c3 == FLe(s, thresholds.strong_rootful)
          c4 == FLe(s, thresholds.mild_rootful)
      IN /\ c1 => v = "strong prefer rootless"
         /\ (~c1 /\ c2) => v = "mild prefer rootless"
         /\ (~c1 /\ ~c2 /\ c3) => v = "strong prefer rootful"
         /\ (~c1 /\ ~c2 /\ ~c3 /\ c4) => v = "mild prefer rootful"
         /\ (~c1 /\ ~c2 /\ ~c3 /\ ~c4) => v = "inconclusive"
         /\ ((c1 \/ c2) /\ (c3 \/ c4)) => RootlessLeaning(v)

\* C6 witness: a score that meets the mild rootless and the strong rootful
\* condition, but not the strong rootless one, classified mild prefer rootless.
C6_Witness ==
  /\ call.fn = "verdict"
  /\ Len(ret) >= 1
  /\ ~FGe(ret[1].weighted_score, thresholds.strong_rootless)
  /\ FGe(ret[1].weighted_score, thresholds.mild_rootless)
  /\ FLe(ret[1].weighted_score, thresholds.strong_rootful)
  /\ ret[1].verdict = "mild prefer rootless"

\* C9: in the written report min <= mean <= max, all three lie in [0, 100],
\* and on an empty sequence mean, min and max are 50.0 and the variance 0.0.
C9_MeanBetweenMinAndMax ==
  Written =>
    LET sm == report[1].summary
    IN /\ FLe(sm.min_weighted_score, sm.mean_weighted_score)
       /\ FLe(sm.mean_weighted_score, sm.max_weighted_score)
       /\ InScale(sm.min_weighted_score)
       /\ InScale(sm.mean_weighted_score)
       /\ InScale(sm.max_weighted_score)
       /\ Len(report[1].runs) = 0 =>
            /\ sm.mean_weighted_score = F(50)
            /\ sm.min_weighted_score = F(50)
            /\ sm.max_weighted_score = F(50)
            /\ sm.variance = Zero
=============================================================================
